---- MODULE Spec2Model ----
(***************************************************************************)
(* A model of scripts/mk_spec_light.py: process_markdown_content, the      *)
(* line-by-line markdown rewriter, followed by its three post passes       *)
(* (blank-line collapse, edge trimming, footer truncation).                *)
(*                                                                         *)
(* Lines are strings and every regular expression of the source is an      *)
(* operator over the characters of the string.  TLA+ strings are ASCII     *)
(* only, so the non-ASCII code points the program writes or deletes are    *)
(* denoted by ASCII characters that occur in no modelled input otherwise:  *)
(*   "@" is U+2022 (the bullet), "~" is U+2014 (the em dash),              *)
(*   "^" is a code point of U+1F300..U+1F9FF, "$" one of U+2600..U+26FF,   *)
(*   "%" one of U+2700..U+27BF,                                            *)
(* and the backtick, which a TLA+ string cannot hold, is written "'".       *)
(***************************************************************************)
EXTENDS Integers, Sequences, FiniteSets, TLC

VARIABLES lines, i, output, in_code_block, code_buffer, code_lang,
          skip_yaml, skip_toc, result, final_result, returned, pc

vars == <<lines, i, output, in_code_block, code_buffer, code_lang,
          skip_yaml, skip_toc, result, final_result, returned, pc>>

(***************************************************************************)
(* Characters and the str methods the source uses.                         *)
(***************************************************************************)
\* the slice s[a-1:b] of a string: positions a..b that exist, "" when there are none
Slice(s, a, b) ==
  LET lo == IF a < 1 THEN 1 ELSE a
      hi == IF b > Len(s) THEN Len(s) ELSE b
  IN  IF lo > hi THEN "" ELSE SubSeq(s, lo, hi)

At(s, k) == Slice(s, k, k)

Take(s, n) == Slice(s, 1, n)

Drop(s, n) == Slice(s, n + 1, Len(s))

\* str.strip() with no argument and the regex class \s: ASCII whitespace
\* (a line never holds "\n": it comes from split("\n")).
Whitespace == {" ", "\t", "\r", "\f"}

\* the regex class \w
WordChars ==
  {"a","b","c","d","e","f","g","h","i","j","k","l","m","n","o","p","q","r",
   "s","t","u","v","w","x","y","z","A","B","C","D","E","F","G","H","I","J",
   "K","L","M","N","O","P","Q","R","S","T","U","V","W","X","Y","Z","0","1",
   "2","3","4","5","6","7","8","9","_"}

UpperAlphabet == "ABCDEFGHIJKLMNOPQRSTUVWXYZ"

LowerAlphabet == "abcdefghijklmnopqrstuvwxyz"

\* re.IGNORECASE compares characters up to case
LowerChar(c) ==
  IF \E k \in 1..26 : At(UpperAlphabet, k) = c
  THEN At(LowerAlphabet, CHOOSE k \in 1..26 : At(UpperAlphabet, k) = c)
  ELSE c

RECURSIVE Lower(_)
Lower(s) == IF s = "" THEN "" ELSE LowerChar(Head(s)) \o Lower(Tail(s))

StartsWith(s, p) == Len(s) >= Len(p) /\ Take(s, Len(p)) = p

EndsWith(s, p) == Len(s) >= Len(p) /\ Drop(s, Len(s) - Len(p)) = p

\* the least position of a set of positions, 0 when there is none
First(hits) == IF hits = {} THEN 0 ELSE CHOOSE k \in hits : \A h \in hits : k <= h

\* str.find from position from (1-based); 0 when p does not occur
Find(s, p, from) ==
  First({k \in from..(Len(s) - Len(p) + 1) : Slice(s, k, k + Len(p) - 1) = p})

\* the "in" operator on strings
Contains(s, p) == Find(s, p, 1) # 0

\* length of the maximal run of characters of class from position k on
RECURSIVE Run(_, _, _)
Run(s, k, class) ==
  IF k <= Len(s) /\ At(s, k) \in class THEN 1 + Run(s, k + 1, class) ELSE 0

\* length of the maximal run of characters outside class from position k on
RECURSIVE RunNot(_, _, _)
RunNot(s, k, class) ==
  IF k <= Len(s) /\ At(s, k) \notin class THEN 1 + RunNot(s, k + 1, class) ELSE 0

AllIn(s, class) == Run(s, 1, class) = Len(s)

LStripSet(s, class) == Drop(s, Run(s, 1, class))

RECURSIVE RStripSet(_, _)
RStripSet(s, class) ==
  IF s # "" /\ At(s, Len(s)) \in class THEN RStripSet(Take(s, Len(s) - 1), class) ELSE s

StripSet(s, class) == RStripSet(LStripSet(s, class), class)

LStrip(s) == LStripSet(s, Whitespace)

Strip(s) == StripSet(s, Whitespace)

\* str.split(sep) for a one-character separator
RECURSIVE Split(_, _)
SplitAt(s, sep, k) ==
  IF k = 0 THEN <<s>> ELSE <<Take(s, k - 1)>> \o Split(Drop(s, k), sep)

Split(s, sep) == SplitAt(s, sep, Find(s, sep, 1))

\* sep.join(parts)
RECURSIVE Join(_, _)
Join(parts, sep) ==
  IF parts = <<>> THEN ""
  ELSE IF Len(parts) = 1 THEN parts[1]
  ELSE parts[1] \o sep \o Join(Tail(parts), sep)

(***************************************************************************)
(* The rules of the per-line pass, in the order of the loop body.          *)
(***************************************************************************)
\* line.strip() == "---"
IsYamlDelimiter(line) == Strip(line) = "---"

\* front matter that may start at any line
StartsFrontMatterAnywhere(idx, line) == IsYamlDelimiter(line)

\* i == 0 and line.strip() == "---"
StartsFrontMatter(idx, line) == idx = 0 /\ IsYamlDelimiter(line)

\* re.match(r'^##?\s+Table of Contents', line, re.IGNORECASE)
IsTocHeading(line) ==
  \E h \in 1..2 : \E w \in 1..Len(line) :
    /\ Take(line, h) = Take("##", h)
    /\ AllIn(Slice(line, h + 1, h + w), Whitespace)
    /\ Lower(Slice(line, h + w + 1, h + w + 17)) = "table of contents"

\* re.match(r'^##\s+\w', line)
EndsToc(line) ==
  \E w \in 1..Len(line) :
    /\ StartsWith(line, "##")
    /\ AllIn(Slice(line, 3, 2 + w), Whitespace)
    /\ At(line, 3 + w) \in WordChars

\* re.sub(r'<!--.*?-->', '', line)
RECURSIVE RemoveComments(_)
\* the comment opening at k and closing at e (0: no match) is cut out
CutComment(s, k, e) ==
  IF k = 0 \/ e = 0 THEN s ELSE Take(s, k - 1) \o RemoveComments(Drop(s, e + 2))

CutCommentFrom(s, k) == CutComment(s, k, Find(s, "-->", k + 4))

RemoveComments(s) == CutCommentFrom(s, Find(s, "<!--", 1))

\* the backtick
Backtick == "'"

\* the code-fence marker: three backticks
FenceMarker == Backtick \o Backtick \o Backtick

\* line.strip().startswith(FenceMarker)
IsFence(line) == StartsWith(Strip(line), FenceMarker)

\* line.strip()[3:].strip()
FenceLang(line) == Strip(Drop(Strip(line), 3))

\* re.match(r'^\s*!\[.*\]\(.*(?:shields\.io|badge\.).*\)\s*$', line)
IsBadgeStripped(u) ==
  /\ StartsWith(u, "![")
  /\ \E a \in 3..Len(u) : \E b \in (a + 2)..Len(u) :
       /\ Slice(u, a, a + 1) = "]("
       /\ \/ Slice(u, b, b + 9) = "shields.io" /\ b + 10 <= Len(u)
          \/ Slice(u, b, b + 5) = "badge." /\ b + 6 <= Len(u)
       /\ At(u, Len(u)) = ")"

IsBadge(line) == IsBadgeStripped(Strip(line))

\* open text ]( url )  with the text at t..t+n-1 and the url of u characters
\* after it: whether the pattern  open ([^\]]{minText,}) \] \( [^)]+ \)  matches
BracketShape(s, t, n, u, minText) ==
  /\ n >= minText
  /\ Slice(s, t + n, t + n + 1) = "]("
  /\ u >= 1
  /\ At(s, t + n + 2 + u) = ")"

\* the url of the bracket whose text is t..t+n-1: its length
UrlLen(s, t, n) == RunNot(s, t + n + 2, {")"})

\* the text of the bracket opened before t: its length
TextLen(s, t) == RunNot(s, t, {"]"})

\* whether the pattern matches at position k
BracketMatch(s, k, open, minText) ==
  /\ Slice(s, k, k + Len(open) - 1) = open
  /\ BracketShape(s, k + Len(open), TextLen(s, k + Len(open)),
                  UrlLen(s, k + Len(open), TextLen(s, k + Len(open))), minText)

\* re.sub over  open text ]( url ) : every leftmost non-overlapping match is
\* replaced by  before \o text \o after
RECURSIVE BracketSub(_, _, _, _, _)
\* the match whose text is t..t+n-1 and whose url has u characters is replaced
BracketReplace(s, open, minText, before, after, t, n, u) ==
  Take(s, t - Len(open) - 1) \o before \o Slice(s, t, t + n - 1) \o after
    \o BracketSub(Drop(s, t + n + 2 + u), open, minText, before, after)

BracketSubAt(s, open, minText, before, after, k) ==
  IF k = 0 THEN s
  ELSE BracketReplace(s, open, minText, before, after, k + Len(open),
                      TextLen(s, k + Len(open)),
                      UrlLen(s, k + Len(open), TextLen(s, k + Len(open))))

BracketSub(s, open, minText, before, after) ==
  BracketSubAt(s, open, minText, before, after,
               First({k \in 1..Len(s) : BracketMatch(s, k, open, minText)}))

\* re.sub(r'!\[([^\]]*)\]\([^)]+\)', r'[Image: \1]', line)
ImagesToCaptions(line) == BracketSub(line, "![", 0, "[Image: ", "]")

\* re.sub(r'\[([^\]]+)\]\([^)]+\)', r'\1', line)
SimplifyLinks(line) == BracketSub(line, "[", 1, "", "")

\* the three emoji ranges of lines 91-93
EmojiChars == {"^", "$", "%"}

\* re.sub(r'[range]', '', line)
RECURSIVE RemoveChars(_, _)
RemoveChars(s, class) ==
  IF s = "" THEN ""
  ELSE (IF Head(s) \in class THEN "" ELSE Head(s)) \o RemoveChars(Tail(s), class)

RECURSIVE Repeat(_, _)
Repeat(c, n) == IF n = 0 THEN "" ELSE c \o Repeat(c, n - 1)

\* whether  d{n} ([^d]+) d{n}  matches at position k with m enclosed characters
EmphShape(s, k, d, n, m) ==
  /\ Slice(s, k, k + n - 1) = Repeat(d, n)
  /\ m >= 1
  /\ Slice(s, k + n + m, k + 2 * n + m - 1) = Repeat(d, n)

EmphMatch(s, k, d, n) == EmphShape(s, k, d, n, RunNot(s, k + n, {d}))

\* re.sub(r'd{n}([^d]+)d{n}', r'\1', line)
RECURSIVE StripEmphasis(_, _, _)
\* the match at k with m enclosed characters is replaced by what it encloses
EmphReplace(s, d, n, k, m) ==
  Take(s, k - 1) \o Slice(s, k + n, k + n + m - 1)
    \o StripEmphasis(Drop(s, k + 2 * n + m - 1), d, n)

StripEmphasisAt(s, d, n, k) ==
  IF k = 0 THEN s ELSE EmphReplace(s, d, n, k, RunNot(s, k + n, {d}))

StripEmphasis(s, d, n) ==
  StripEmphasisAt(s, d, n, First({k \in 1..Len(s) : EmphMatch(s, k, d, n)}))

\* lines 96-101: triple, double, single; asterisks, then underscores
StripBoldItalic(line) ==
  StripEmphasis(StripEmphasis(StripEmphasis(
    StripEmphasis(StripEmphasis(StripEmphasis(line, "*", 3), "*", 2), "*", 1),
    "_", 3), "_", 2), "_", 1)

\* one or more hashes
IsHashes(u) == u # "" /\ AllIn(u, {"#"})

\* t is  \s* #+ \s*  and nothing else
IsHashTrailer(t) == IsHashes(Strip(t))

\* the text before position k, the whole text when k is 0
Before(s, k) == IF k = 0 THEN s ELSE Take(s, k - 1)

\* re.sub(r'\s*#+\s*$', '', line): the leftmost suffix that is a trailer
StripTrailingHashes(line) ==
  Before(line, First({k \in 1..Len(line) : IsHashTrailer(Drop(line, k - 1))}))

\* line is w whitespace characters, then h hashes, then the rest
ClampShape(line, w, h) ==
  IF h >= 4 /\ At(line, w + h + 1) \in Whitespace
  THEN Take(line, w) \o "###" \o Drop(line, w + h)
  ELSE line

ClampAfter(line, w) == ClampShape(line, w, Run(line, w + 1, {"#"}))

\* re.sub(r'^(\s*)#{4,}(\s+)', r'\1###\2', line)
ClampDepth(line) == ClampAfter(line, Run(line, 1, Whitespace))

\* lines 104-108
NormalizeHeading(line) ==
  IF StartsWith(LStrip(line), "#") THEN ClampDepth(StripTrailingHashes(line)) ELSE line

\* '|' in line and no backtick in line   (in_code_block is false where it is read)
LooksLikeTable(line) == Contains(line, "|") /\ ~Contains(line, Backtick)

\* re.match(r'^\s*\|?\s*[-:]+\s*(\|\s*[-:]+\s*)+\|?\s*$', line)
\* \s*[-:]+\s*
IsSeparatorCell(cell) == cell # "" /\ AllIn(cell, {"-", ":"})

\* the cells of a separator row: two or more
AreSeparatorCells(cells) ==
  Len(cells) >= 2 /\ \A k \in 1..Len(cells) : IsSeparatorCell(Strip(cells[k]))

\* the optional pipe at the start
DropLeadingPipe(s) == IF StartsWith(s, "|") THEN Drop(s, 1) ELSE s

\* the optional pipe at the end
DropTrailingPipe(s) == IF EndsWith(s, "|") THEN Take(s, Len(s) - 1) ELSE s

IsTableSeparator(line) ==
  AreSeparatorCells(
    Split(DropTrailingPipe(RStripSet(DropLeadingPipe(LStrip(line)), Whitespace)), "|"))

\* re.match(r'^\s*\|.*\|\s*$', line)
IsRowStripped(u) == Len(u) >= 2 /\ StartsWith(u, "|") /\ EndsWith(u, "|")

IsTableRow(line) == IsRowStripped(Strip(line))

RECURSIVE NonEmpty(_)
NonEmpty(cells) ==
  IF cells = <<>> THEN <<>>
  ELSE (IF cells[1] # "" THEN <<cells[1]>> ELSE <<>>) \o NonEmpty(Tail(cells))

StripEach(raw) == [k \in 1..Len(raw) |-> Strip(raw[k])]

\* lines 117-118
TableCells(line) == NonEmpty(StripEach(Split(StripSet(Strip(line), {"|"}), "|")))

\* '• ' + ' — '.join(cells)
Bullet(cells) == "@ " \o Join(cells, " ~ ")

\* re.sub(r'[ \t]+', ' ', line)
RECURSIVE CollapseSpaces(_)
CollapseSpaces(s) ==
  IF s = "" THEN ""
  ELSE IF Head(s) \in {" ", "\t"} THEN " " \o CollapseSpaces(LStripSet(s, {" ", "\t"}))
  ELSE Head(s) \o CollapseSpaces(Tail(s))

\* lines 85-108: the substitutions made on a prose line before the table rule
RewriteProse(line) ==
  NormalizeHeading(StripBoldItalic(RemoveChars(SimplifyLinks(ImagesToCaptions(line)),
                                               EmojiChars)))

\* re.search(r'^\*\*Maintained by\*\*|^Maintained by:', line, re.IGNORECASE)
IsFooter(line) ==
  \/ StartsWith(Lower(line), "**maintained by**")
  \/ StartsWith(Lower(line), "maintained by:")

\* line.strip() == ''
IsBlank(line) == Strip(line) = ""

(***************************************************************************)
(* The loop body (lines 29-126) as a function of the loop's state st, the  *)
(* index idx and the line; each operator below is one stretch of the body  *)
(* and ends where the source says continue.                                *)
(***************************************************************************)
\* lines 61-74: a fence line opens a block or closes it and flushes the buffer
FenceStep(st, line) ==
  IF ~st.in_code_block
  THEN [st EXCEPT !.in_code_block = TRUE,
                  !.code_lang = FenceLang(line),
                  !.code_buffer = <<line>>]
  ELSE [st EXCEPT !.output = st.output \o Append(st.code_buffer, line),
                  !.in_code_block = FALSE,
                  !.code_buffer = <<>>,
                  !.code_lang = ""]

\* a line inside a block that is written out at once as well as buffered
BufferStepStreaming(st, line) ==
  [st EXCEPT !.code_buffer = Append(st.code_buffer, line),
             !.output = Append(st.output, line)]

\* lines 76-78: a line inside a block goes to the buffer
BufferStep(st, line) == [st EXCEPT !.code_buffer = Append(st.code_buffer, line)]

\* lines 119-120: the cells of a row are emitted as one bullet line, if any
EmitCells(st, cells) ==
  IF cells # <<>> THEN [st EXCEPT !.output = Append(st.output, Bullet(cells))] ELSE st

\* lines 110-126: the table rule, then the whitespace rule, on a rewritten line
EmitStep(st, line) ==
  IF LooksLikeTable(line) /\ ~st.in_code_block /\ IsTableSeparator(line) THEN st
  ELSE IF LooksLikeTable(line) /\ ~st.in_code_block /\ IsTableRow(line)
  THEN EmitCells(st, TableCells(line))
  ELSE [st EXCEPT !.output = Append(st.output, CollapseSpaces(line))]

\* lines 80-126: a prose line
ProseStep(st, line) == IF IsBadge(line) THEN st ELSE EmitStep(st, RewriteProse(line))

\* lines 60-126: the fence, the buffer or the prose rules
CodeOrProseStep(st, line) ==
  IF IsFence(line) THEN FenceStep(st, line)
  ELSE IF st.in_code_block THEN BufferStep(st, line)
  ELSE ProseStep(st, line)

\* lines 52-58: the HTML-comment rule
ContentStep(st, line) ==
  IF Contains(line, "<!--") /\ Contains(line, "-->")
  THEN CodeOrProseStep(st, RemoveComments(line))
  ELSE IF Contains(line, "<!--") \/ Contains(line, "-->") THEN st
  ELSE CodeOrProseStep(st, line)

\* lines 39-50: the table-of-contents rules, ahead of everything but front matter
TocStep(st, line) ==
  IF IsTocHeading(line) THEN [st EXCEPT !.skip_toc = TRUE]
  ELSE IF st.skip_toc /\ ~EndsToc(line) THEN st
  ELSE ContentStep([st EXCEPT !.skip_toc = FALSE], line)

\* lines 30-37, then the rest of the body
LoopBody(st, idx, line) ==
  IF StartsFrontMatter(idx, line) THEN [st EXCEPT !.skip_yaml = TRUE]
  ELSE IF st.skip_yaml THEN [st EXCEPT !.skip_yaml = ~IsYamlDelimiter(line)]
  ELSE TocStep(st, line)

(***************************************************************************)
(* The post passes (lines 128-160).                                        *)
(***************************************************************************)
\* line 134: the blank lines of a run that are kept
MaxBlankRun == 2

\* lines 129-138, from position k of out with empty_count blank lines just seen
RECURSIVE CollapseFrom(_, _, _)
CollapseFrom(out, k, empty_count) ==
  IF k > Len(out) THEN <<>>
  ELSE IF IsBlank(out[k])
       THEN (IF empty_count + 1 <= MaxBlankRun THEN <<out[k]>> ELSE <<>>)
              \o CollapseFrom(out, k + 1, empty_count + 1)
       ELSE <<out[k]>> \o CollapseFrom(out, k + 1, 0)

\* the collapse with the count compared before it is incremented
RECURSIVE CollapseFromLate(_, _, _)
CollapseFromLate(out, k, empty_count) ==
  IF k > Len(out) THEN <<>>
  ELSE IF IsBlank(out[k])
       THEN (IF empty_count <= MaxBlankRun THEN <<out[k]>> ELSE <<>>)
              \o CollapseFromLate(out, k + 1, empty_count + 1)
       ELSE <<out[k]>> \o CollapseFromLate(out, k + 1, 0)

CollapseBlankLate(out) == CollapseFromLate(out, 1, 0)

CollapseBlank(out) == CollapseFrom(out, 1, 0)

\* lines 141-142
RECURSIVE PopLeadingBlank(_)
PopLeadingBlank(res) ==
  IF res # <<>> /\ IsBlank(res[1]) THEN PopLeadingBlank(Tail(res)) ELSE res

\* lines 143-144
RECURSIVE PopTrailingBlank(_)
PopTrailingBlank(res) ==
  IF res # <<>> /\ IsBlank(res[Len(res)])
  THEN PopTrailingBlank(SubSeq(res, 1, Len(res) - 1)) ELSE res

\* line 149: the lines at the end that are scanned for the footer
FooterWindow == 15

\* lines 148-158
\* lines 156-157
PopRule(cut) ==
  IF cut # <<>> /\ Strip(cut[Len(cut)]) = "---" THEN SubSeq(cut, 1, Len(cut) - 1) ELSE cut

\* lines 154-158: the cut at the footer line k (0: none)
CutFooterAt(res, k) == IF k = 0 THEN res ELSE PopRule(SubSeq(res, 1, k - 1))

\* max(0, len(result) - 15)
WindowStart(n) == IF n - FooterWindow > 0 THEN n - FooterWindow ELSE 0

\* lines 148-158
StripFooter(res) ==
  CutFooterAt(res, First({k \in (WindowStart(Len(res)) + 1)..Len(res) : IsFooter(res[k])}))

(***************************************************************************)
(* The state machine: one step per loop iteration, then the post passes.   *)
(***************************************************************************)
LoopState ==
  [output |-> output, in_code_block |-> in_code_block, code_buffer |-> code_buffer,
   code_lang |-> code_lang, skip_yaml |-> skip_yaml, skip_toc |-> skip_toc]

\* lines 21-27: the state before the first iteration, for the text content
Start(content) ==
  /\ lines = Split(content, "\n")
  /\ i = 0
  /\ output = <<>>
  /\ in_code_block = FALSE
  /\ code_buffer = <<>>
  /\ code_lang = ""
  /\ skip_yaml = FALSE
  /\ skip_toc = FALSE
  /\ result = <<>>
  /\ final_result = <<>>
  /\ returned = ""
  /\ pc = "loop"

\* the loop's variables after an iteration
Becomes(st) ==
  /\ output' = st.output
  /\ in_code_block' = st.in_code_block
  /\ code_buffer' = st.code_buffer
  /\ code_lang' = st.code_lang
  /\ skip_yaml' = st.skip_yaml
  /\ skip_toc' = st.skip_toc

\* one iteration of the for loop of line 29
ProcessLine ==
  /\ pc = "loop"
  /\ i < Len(lines)
  /\ Becomes(LoopBody(LoopState, i, lines[i + 1]))
  /\ i' = i + 1
  /\ pc' = IF i + 1 = Len(lines) THEN "collapse" ELSE "loop"
  /\ UNCHANGED <<lines, result, final_result, returned>>

\* lines 128-138
CollapseBlankLines ==
  /\ pc = "collapse"
  /\ result' = CollapseBlank(output)
  /\ pc' = "trim"
  /\ UNCHANGED <<lines, i, output, in_code_block, code_buffer, code_lang,
                 skip_yaml, skip_toc, final_result, returned>>

\* lines 140-144
TrimBlankEdges ==
  /\ pc = "trim"
  /\ result' = PopTrailingBlank(PopLeadingBlank(result))
  /\ pc' = "footer"
  /\ UNCHANGED <<lines, i, output, in_code_block, code_buffer, code_lang,
                 skip_yaml, skip_toc, final_result, returned>>

\* lines 146-160
TruncateFooterAndReturn ==
  /\ pc = "footer"
  /\ final_result' = StripFooter(result)
  /\ returned' = Join(StripFooter(result), "\n")
  /\ pc' = "done"
  /\ UNCHANGED <<lines, i, output, in_code_block, code_buffer, code_lang,
                 skip_yaml, skip_toc, result>>

Next ==
  \/ ProcessLine
  \/ CollapseBlankLines
  \/ TrimBlankEdges
  \/ TruncateFooterAndReturn

(***************************************************************************)
(* Inputs.  A document is the join of at most MaxLines lines of a          *)
(* vocabulary; each specification draws its documents from one.            *)
(***************************************************************************)
MaxLines == 4

MaxPostLines == 4

MaxBlankLines == 5

MaxLen == 6

MaxRowLen == 5

Documents(vocab, n) ==
  {Join(d, "\n") : d \in UNION {[1..k -> vocab] : k \in 0..n}}

\* strings over alphabet of length at most n
RECURSIVE Strings(_, _)
Longer(shorter, alphabet) == shorter \cup {s \o c : s \in shorter, c \in alphabet}

Strings(alphabet, n) ==
  IF n = 0 THEN {""} ELSE Longer(Strings(alphabet, n - 1), alphabet)

\* lines that exercise the modes of the loop: prose, blank, front-matter
\* delimiter, fence, table-of-contents heading, headings of level two and one,
\* an unclosed HTML comment
DocVocab ==
  {"a", "", "---", FenceMarker, "## Table of Contents", "## Two", "# One", "<!-- x"}

\* lines that exercise the footer rule: content, blank, horizontal rule, and the
\* attribution footer with a bolded and with a plain label
PostVocab ==
  {"a", "", "---", "**Maintained by** Team", "Maintained by: Team"}

\* lines that exercise the blank-line rules: content, the two kinds of blank
\* line, a footer, a fence (blank lines inside a code block)
BlankVocab == {"a", "", " ", "Maintained by: T", FenceMarker}

HeadingAlphabet == {"#", " ", "a"}

RowAlphabet == {"|", "-", ":", " ", "a"}

Init == \E content \in Documents(DocVocab, MaxLines) : Start(content)

InitPost == \E content \in Documents(PostVocab, MaxPostLines) : Start(content)

InitBlank == \E content \in Documents(BlankVocab, MaxBlankLines) : Start(content)

InitLine ==
  \E content \in Strings(HeadingAlphabet, MaxLen) \cup Strings(RowAlphabet, MaxRowLen) :
    Start(content)

Spec == Init /\ [][Next]_vars

SpecPost == InitPost /\ [][Next]_vars

SpecBlank == InitBlank /\ [][Next]_vars

SpecLine == InitLine /\ [][Next]_vars

(***************************************************************************)
(* The claims.                                                             *)
(***************************************************************************)
Last(seq) == seq[Len(seq)]

\* block occurs in seq as a contiguous stretch
Occurs(block, seq) ==
  \E k \in 0..(Len(seq) - Len(block)) : SubSeq(seq, k + 1, k + Len(block)) = block

FencesBefore(a) == Cardinality({k \in 1..(a - 1) : IsFence(lines[k])})

\* lines a..b of the input are a fenced block of the document proper: an opening
\* fence (an even number of fences precede it), no fence inside, a closing fence,
\* outside front matter and with no table-of-contents heading ahead of it
BalancedBlock(a, b) ==
  /\ a < b
  /\ IsFence(lines[a]) /\ IsFence(lines[b])
  /\ \A k \in (a + 1)..(b - 1) : ~IsFence(lines[k])
  /\ FencesBefore(a) % 2 = 0
  /\ ~IsYamlDelimiter(lines[1])
  /\ \A k \in 1..(a - 1) : ~IsTocHeading(lines[k])

\* C1: every balanced fenced block of the input (fence, interior lines, fence)
\* stands in the returned lines unchanged, in order and contiguous, whatever its
\* interior lines are.
C1_CodePreserved ==
  pc = "done" =>
    \A a \in 1..Len(lines) : \A b \in 1..Len(lines) :
      BalancedBlock(a, b) => Occurs(SubSeq(lines, a, b), final_result)

\* C8: during the pass at most one of in_code_block, skip_yaml and skip_toc is true.
C8_ModesExclusive ==
  /\ ~(in_code_block /\ skip_yaml)
  /\ ~(in_code_block /\ skip_toc)
  /\ ~(skip_yaml /\ skip_toc)

\* none of lines 2..n is a bare ---
FrontMatterOpenThrough(n) == \A k \in 2..n : ~IsYamlDelimiter(lines[k])

\* C3: front-matter mode is on exactly while the first line is a bare --- and no
\* later bare --- has been read, so a --- at a later line never starts it; up to
\* and including the closing --- nothing reaches the output and the loop's state
\* is the one a document starts in; with no closing --- the result is empty.
C3_FrontMatter ==
  /\ skip_yaml <=> (i >= 1 /\ IsYamlDelimiter(lines[1]) /\ FrontMatterOpenThrough(i))
  /\ (i >= 1 /\ IsYamlDelimiter(lines[1]) /\ FrontMatterOpenThrough(i - 1)) =>
       (output = <<>> /\ code_buffer = <<>> /\ ~in_code_block /\ ~skip_toc)
  /\ (pc = "done" /\ skip_yaml) => (final_result = <<>> /\ returned = "")

\* C3 witness: a document with closed front matter and a body that is returned
C3_Witness ==
  /\ pc = "done"
  /\ Len(lines) = 4
  /\ IsYamlDelimiter(lines[1]) /\ IsYamlDelimiter(lines[3])
  /\ returned = "a"

\* a heading of level one or two: one or two hashes, whitespace, a word character
IsShallowHeading(line) ==
  \E h \in 1..2 : \E w \in 1..Len(line) :
    /\ Take(line, h) = Take("##", h)
    /\ AllIn(Slice(line, h + 1, h + w), Whitespace)
    /\ At(line, h + w + 1) \in WordChars

\* lines 1..n hold no front matter and no fence: the pass over them is in
\* neither front-matter nor code mode
PlainThrough(n) == ~IsYamlDelimiter(lines[1]) /\ \A k \in 1..n : ~IsFence(lines[k])

\* line t is a table-of-contents heading and no heading of level one or two
\* follows it among lines t+1..n
TocOpenFrom(t, n) ==
  /\ IsTocHeading(lines[t])
  /\ \A k \in (t + 1)..n : IsTocHeading(lines[k]) \/ ~IsShallowHeading(lines[k])

\* C7: after a table-of-contents heading every line is discarded until the next
\* heading of level one or two; that heading ends the suppression and is emitted.
C7_TocSuppression ==
  (i >= 1 /\ PlainThrough(i)) =>
    /\ \A t \in 1..i : TocOpenFrom(t, i) => (skip_toc /\ Len(output) <= t - 1)
    /\ (IsShallowHeading(lines[i]) /\ ~IsTocHeading(lines[i])) =>
         (~skip_toc /\ output # <<>> /\ Last(output) = lines[i])

Range(seq) == {seq[k] : k \in 1..Len(seq)}

\* C10: a step that ends inside a code block leaves the output as it was, the
\* buffer holds the opening fence line first, and when the document ends inside
\* a block the returned lines are lines emitted before the fence was opened.
C10_UnclosedFence ==
  /\ [][in_code_block' => output' = output]_vars
  /\ [](in_code_block => (code_buffer # <<>> /\ IsFence(code_buffer[1])))
  /\ []((pc = "done" /\ in_code_block) =>
          (Len(final_result) <= Len(output) /\ Range(final_result) \subseteq Range(output)))

\* C10 witness: content, then a fence that is never closed and a line after it
C10_Witness ==
  /\ pc = "done"
  /\ in_code_block
  /\ Len(lines) = 3
  /\ IsFence(lines[2])
  /\ Len(code_buffer) = 2
  /\ returned = "a"

(***************************************************************************)
(* Claims about the post passes.                                           *)
(***************************************************************************)
\* the lengths of the runs of blank lines of seq: before the first non-blank
\* line, between each two, after the last
RECURSIVE Gaps(_)
GapsCons(line, rest) ==
  IF IsBlank(line) THEN <<rest[1] + 1>> \o Tail(rest) ELSE <<0>> \o rest

Gaps(seq) == IF seq = <<>> THEN <<0>> ELSE GapsCons(Head(seq), Gaps(Tail(seq)))

\* the non-blank lines of seq, in order
RECURSIVE NonBlanks(_)
NonBlanks(seq) ==
  IF seq = <<>> THEN <<>>
  ELSE (IF IsBlank(Head(seq)) THEN <<>> ELSE <<Head(seq)>>) \o NonBlanks(Tail(seq))

AtMostTwo(n) == IF n >= 3 THEN 2 ELSE n

\* no three consecutive blank lines
NoTripleBlank(seq) ==
  \A k \in 1..(Len(seq) - 2) : ~(IsBlank(seq[k]) /\ IsBlank(seq[k + 1]) /\ IsBlank(seq[k + 2]))

CollapsedGaps(before, after) ==
  /\ Len(after) = Len(before)
  /\ \A k \in 1..Len(before) : after[k] = AtMostTwo(before[k])

InteriorGaps(before, after) ==
  /\ Len(after) = Len(before)
  /\ \A k \in 2..(Len(before) - 1) : after[k] = AtMostTwo(before[k])

C4_EdgesTrimmed ==
  (pc = "done" /\ final_result # <<>>) =>
    (~IsBlank(final_result[1]) /\ ~IsBlank(Last(final_result)))

\* a line that begins with the bolded or the plain Maintained by label
IsAttribution(line) ==
  \/ StartsWith(Lower(line), "**maintained by**")
  \/ StartsWith(Lower(line), "maintained by")

\* the lines before line k, less a bare --- at their end
BeforeFooter(seq, k) ==
  IF k >= 2 /\ Strip(seq[k - 1]) = "---" THEN SubSeq(seq, 1, k - 2) ELSE SubSeq(seq, 1, k - 1)

\* the document ends with content, a blank line, ---, **Maintained by** Team
EndsWithRuleAndFooter ==
  /\ Len(lines) >= 4
  /\ SubSeq(lines, Len(lines) - 3, Len(lines)) = <<"a", "", "---", "**Maintained by** Team">>

\* C2: when one of the last 15 normalized lines begins with the bolded or the
\* plain Maintained by label, only the lines before the first such line are
\* returned, less a bare --- at their end; a document ending with content, a
\* blank line, --- and **Maintained by** Team comes out ending at the content.
C2_FooterTruncated ==
  pc = "done" =>
    /\ \A k \in (WindowStart(Len(result)) + 1)..Len(result) :
         (/\ IsAttribution(result[k])
          /\ \A j \in (WindowStart(Len(result)) + 1)..(k - 1) : ~IsAttribution(result[j]))
           => final_result = BeforeFooter(result, k)
    /\ EndsWithRuleAndFooter => (final_result # <<>> /\ Last(final_result) = "a")

(***************************************************************************)
(* Claims about the rewriting of one line.                                 *)
(***************************************************************************)
\* the hashes of the heading marker that line begins with after leading
\* whitespace (a run of hashes followed by whitespace or the end of the line),
\* 0 when it begins with none
MarkerDepthAfter(line, w, h) ==
  IF h >= 1 /\ (w + h = Len(line) \/ At(line, w + h + 1) \in Whitespace) THEN h ELSE 0

MarkerDepthFrom(line, w) == MarkerDepthAfter(line, w, Run(line, w + 1, {"#"}))

HeadingDepth(line) == MarkerDepthFrom(line, Run(line, 1, Whitespace))

\* C6: a line outside code that begins with a heading marker of depth four or
\* more is emitted with depth three and without trailing hashes, so no emitted
\* heading line is deeper than three.  (A heading that is hashes only and is
\* emitted as a blank line is not held against the claim.)
C6_HeadingClamp ==
  (pc = "done" /\ Len(lines) = 1 /\ ~Contains(lines[1], "|")) =>
    /\ \A k \in 1..Len(output) : HeadingDepth(output[k]) <= 3
    /\ (HeadingDepth(lines[1]) >= 4 /\ output # <<>> /\ ~IsBlank(Last(output))) =>
         (HeadingDepth(output[1]) = 3 /\ ~EndsWith(Strip(output[1]), "#"))

\* the cells between the pipes of a row
RowCells(line) ==
  Split(DropTrailingPipe(RStripSet(DropLeadingPipe(LStrip(line)), Whitespace)), "|")

AllSeparatorCells(cells) == \A k \in 1..Len(cells) : IsSeparatorCell(Strip(cells[k]))

\* a row of dash/colon cells only: of two columns or more, or of one column
\* between a leading and a trailing pipe
IsSeparatorRow(line) ==
  /\ AllSeparatorCells(RowCells(line))
  /\ Len(RowCells(line)) >= 2 \/ IsTableRow(line)

\* C9: of a line outside code with a pipe and no backtick, a row of dash/colon
\* cells only (of any number of columns) yields no output line, and any other
\* row with a leading and a trailing pipe yields the one bullet line of its
\* trimmed non-empty cells, or no line when it has none.
C9_TableFlatten ==
  (pc = "done" /\ Len(lines) = 1 /\ LooksLikeTable(lines[1])) =>
    /\ IsSeparatorRow(lines[1]) => output = <<>>
    /\ (~IsSeparatorRow(lines[1]) /\ IsTableRow(lines[1])) =>
         output = IF TableCells(lines[1]) = <<>> THEN <<>>
                  ELSE <<Bullet(TableCells(lines[1]))>>

====
